---- MODULE Spec2Model ----
(***************************************************************************)
(* Model of src/src/mgos_dht.c: the single-wire DHT sensor driver.         *)
(*                                                                         *)
(* One sensor handle (struct mgos_dht) is created, read and closed by a    *)
(* single caller.  Time is the value of mg_time() in whole seconds.  The   *)
(* sensor and the wire are the environment: for every dht_wait the driver  *)
(* makes, the environment fixes the number of leading polls at which the   *)
(* pin does not yet read the requested level.                              *)
(***************************************************************************)
EXTENDS Integers, Sequences, FiniteSets, TLC

VARIABLES
  created,   \* TRUE iff mgos_dht_create returned a handle not yet closed
  dht,       \* the struct mgos_dht behind the handle
  now,       \* mg_time(), seconds
  ints,      \* depth of mgos_ints_disable not yet matched by mgos_ints_enable
  bus,       \* collaborator calls (gpio, sleep, ints) made by the last call
  last,      \* what the last API call was, what it saw and what it returned
  cnt        \* per-handle history: calls made (N), calls that did no
             \* handshake (M), fresh calls that returned true (S), start time
             \* of the last call that did a handshake (F, if N > M), what the
             \* last dht_read returned (R, if N > 0)
VARIABLE
  waiting    \* where the critical section of dht_read is, when it is run
             \* one poll of the pin at a time

vars == <<created, dht, now, ints, bus, last, cnt, waiting>>

----------------------------------------------------------------------------
(* Bounds of the model *)

MaxTime == 4        \* the clock runs from 0 to MaxTime seconds
MaxReads == 3       \* read calls on one handle
MaxElapsed == 1     \* whole seconds the clock may advance during one fresh read
MaxPolls == 510     \* polls of the pin one dht_wait is followed for

(* Program constants *)

MGOS_DHT_READ_DELAY == 2
AckTimeoutUsecs == 90
SlotTimeoutUsecs == 500
NumCycles == 80
NumBits == 40
DataLen == 5
UsecsPerSec == 1000000

Types == {"DHT11", "DHT22", "ITEAD_SI7021"}
Pins == {4}

Min(a, b) == IF a < b THEN a ELSE b

----------------------------------------------------------------------------
(* struct mgos_dht and struct mgos_dht_stats *)

ZeroStats ==
  [last_read_time |-> 0, read |-> 0, read_success |-> 0,
   read_success_cached |-> 0, read_success_usecs |-> 0]

ZeroData == [i \in 1..DataLen |-> 0]

\* calloc + memset(0) + pin + type
NewDht(pin, type) ==
  [pin |-> pin, type |-> type, data |-> ZeroData, last_result |-> FALSE,
   stats |-> ZeroStats]

\* Content shown for the handle while none exists.
NoDht == NewDht(0, "DHT11")

----------------------------------------------------------------------------
(* dht_wait, lines 43-54.  n is the number of leading polls at which       *)
(* mgos_gpio_read(pin) != lvl: poll number t (t = 0, 1, ...) differs from  *)
(* lvl iff t < n.  t counts the mgos_usleep(1) made so far.                *)

\* Line 45, at poll number t.
PinDiffers(n, t) == t < n

\* TimedOut that gives up one poll late.
TimedOut_OneLate(t, usecs) == t = usecs + 1

\* Line 46.
TimedOut(t, usecs) == t = usecs

\* The loop leaves at the first t at which the pin reads lvl (line 45) or at
\* which t = usecs (line 46), whichever comes first.
LoopExit(n, usecs) == Min(n, usecs)

\* Lines 44-53: at the exit, t is returned if the pin read lvl, and 0 if the
\* pin still differed, which is when t = usecs.
dht_wait(n, usecs) ==
  LET t == LoopExit(n, usecs) IN
  IF PinDiffers(n, t) THEN 0 ELSE t

----------------------------------------------------------------------------
(* The environment: what the sensor puts on the wire during one read.      *)

\* 5-byte transmissions the sensor may send, most significant bit first.
FrameDht11 == <<50, 0, 25, 0, 75>>          \* 0x32 0x00 0x19 0x00 0x4B, good
FrameNegative == <<2, 140, 128, 25, 39>>    \* 0x02 0x8C 0x80 0x19 0x27, good
FrameBadSum == <<2, 140, 128, 25, 40>>      \* same bytes, checksum off by one
FrameOnes == <<255, 255, 255, 255, 255>>    \* sum is 0xFC: checksum bad
FrameZeros == <<0, 0, 0, 0, 0>>             \* checksum good

Frames == {FrameDht11, FrameNegative, FrameBadSum, FrameOnes, FrameZeros}

Pow2(k) == CASE k = 0 -> 1 [] k = 1 -> 2 [] k = 2 -> 4 [] k = 3 -> 8
             [] k = 4 -> 16 [] k = 5 -> 32 [] k = 6 -> 64 [] k = 7 -> 128

\* Bit i (0..39) of a frame as the sensor sends it.
FrameBit(f, i) == (f[(i \div 8) + 1] \div Pow2(7 - (i % 8))) % 2

\* Polls of a low phase, and of the high phase of a one bit and of a zero bit.
LowPolls == 50
OneHighPolls == 70
ZeroHighPolls == 30

NoFault == NumCycles

\* A script fixes the polls of each of the 80 capture waits: frame is what is
\* sent, zh the polls of a zero bit's high phase, and at slot fslot (if any)
\* the wait sees fpolls polls instead.
CleanScript(f, z) == [frame |-> f, zh |-> z, fslot |-> NoFault, fpolls |-> 0]

CleanScripts == {CleanScript(f, z) : f \in Frames, z \in {ZeroHighPolls, LowPolls}}

FaultScripts ==
  {[frame |-> FrameNegative, zh |-> ZeroHighPolls, fslot |-> k, fpolls |-> p] :
     k \in 0..(NumCycles - 1), p \in {0, SlotTimeoutUsecs + 1}}

Scripts == CleanScripts \cup FaultScripts

Polls(sc, s) ==
  IF s = sc.fslot THEN sc.fpolls
  ELSE IF s % 2 = 0 THEN LowPolls
  ELSE IF FrameBit(sc.frame, s \div 2) = 1 THEN OneHighPolls
  ELSE sc.zh

\* The polls of the 80 capture waits under a script, wait 0 first.
PollsOf(sc) == [s \in 1..NumCycles |-> Polls(sc, s - 1)] \o << >>

\* A pin run: the polls seen by the two acknowledgment waits (a1, a2), then
\* the polls seen by each of the 80 capture waits.
Run(a1, a2, sc) == [a1 |-> a1, a2 |-> a2, polls |-> PollsOf(sc)]

FirstClean == CleanScript(FrameDht11, ZeroHighPolls)

\* The sensor acknowledges; the second run does so at the last poll allowed.
AckOkRuns(scripts) ==
  {Run(40, 80, sc) : sc \in scripts}
  \cup {Run(AckTimeoutUsecs, AckTimeoutUsecs, FirstClean)}

\* The sensor does not acknowledge: the pin is at the level on the first poll
\* of a wait, or is not at the level within the timeout.
AckFailRuns ==
  {Run(a[1], a[2], FirstClean) :
     a \in {<<0, 80>>, <<AckTimeoutUsecs + 1, 80>>, <<40, 0>>,
            <<40, AckTimeoutUsecs + 1>>}}

\* Every script.
CaptureRuns == AckOkRuns(Scripts) \cup AckFailRuns

\* The scripts with no fault, or with a fault in the first or the last bit.
FewScripts ==
  CleanScripts
  \cup {sc \in FaultScripts : sc.fslot \in {0, 1, NumCycles - 2, NumCycles - 1}}

PinRuns == AckOkRuns(FewScripts) \cup AckFailRuns

----------------------------------------------------------------------------
(* Collaborator calls, recorded in bus in the order the call makes them.    *)

Call(op, a, b) == [op |-> op, a |-> a, b |-> b]

\* StartSignal that enters the critical section before the low pulse is held.
StartSignal_EarlyDisable(d) ==
  << Call("set_mode_input", d.pin, 0),
     Call("set_pull_up", d.pin, 0),
     Call("msleep", 10, 0),
     Call("set_mode_output", d.pin, 0),
     Call("write", d.pin, 0),
     Call("ints_disable", 0, 0),
     IF d.type = "ITEAD_SI7021" THEN Call("usleep", 500, 0)
                                ELSE Call("msleep", 18, 0),
     Call("set_mode_input", d.pin, 0),
     Call("set_pull_up", d.pin, 0),
     Call("usleep", 40, 0) >>

\* Lines 70-91: settle, start signal, enter the critical section, release.
StartSignal(d) ==
  << Call("set_mode_input", d.pin, 0),
     Call("set_pull_up", d.pin, 0),
     Call("msleep", 10, 0),
     Call("set_mode_output", d.pin, 0),
     Call("write", d.pin, 0),
     IF d.type = "ITEAD_SI7021" THEN Call("usleep", 500, 0)
                                ELSE Call("msleep", 18, 0),
     Call("ints_disable", 0, 0),
     Call("set_mode_input", d.pin, 0),
     Call("set_pull_up", d.pin, 0),
     Call("usleep", 40, 0) >>

\* Line 95: the second wait is made only if the first did not return 0.
AckWaits(w1) ==
  IF w1 = 0 THEN << Call("wait", 1, AckTimeoutUsecs) >>
  ELSE << Call("wait", 1, AckTimeoutUsecs), Call("wait", 0, AckTimeoutUsecs) >>

\* AckFailExit without the mgos_ints_enable of line 96.
AckFailExit_NoEnable == << >>

\* Lines 96-97.
AckFailExit == << Call("ints_enable", 0, 0) >>

\* CaptureWaits that waits for low first.
CaptureWaits_LowFirst ==
  [s \in 1..NumCycles |-> Call("wait", (s + 1) % 2, SlotTimeoutUsecs)] \o << >>

\* Lines 102-105.
CaptureWaits ==
  [s \in 1..NumCycles |-> Call("wait", s % 2, SlotTimeoutUsecs)] \o << >>

\* Line 108.
CaptureExit == << Call("ints_enable", 0, 0) >>

\* Work dht_read does on the handle itself, as entries of the same form: a
\* statistics update, the clearing of the flag and of the data buffer, the
\* decode loop, the checksum test.  a is the line of the statement.
Work(op, line) == Call(op, line, 0)

\* Line 61.
CountWork == << Work("stats", 61) >>

\* Line 63.
CacheHitWork == << Work("stats", 63) >>

\* Lines 66-68.
BeginFreshWork == << Work("stats", 66), Work("flag", 67), Work("memset", 68) >>

\* Lines 111-124.
DecodeWork == << Work("decode", 111) >>

\* Lines 126-132: ok is the outcome of the test of line 126.
ChecksumWork(ok) ==
  IF ok THEN << Work("checksum", 126), Work("flag", 128), Work("stats", 129),
                Work("stats", 130), Work("stats", 131) >>
  ELSE << Work("checksum", 126) >>

----------------------------------------------------------------------------
(* dht_read *)

\* RateLimited with a window one second short.
RateLimited_ShortWindow(start, last_read_time) ==
  (start - last_read_time) < MGOS_DHT_READ_DELAY - 1

\* Line 62.
RateLimited(start, last_read_time) ==
  (start - last_read_time) < MGOS_DHT_READ_DELAY

\* CountRead with the increment left out.
CountRead_Skipped(d) == d

\* Line 61.
CountRead(d) == [d EXCEPT !.stats.read = @ + 1]

\* CacheHit that counts the call as a success too.
CacheHit_CountsSuccess(d) ==
  [d EXCEPT !.stats.read_success_cached = @ + 1, !.stats.read_success = @ + 1]

\* Lines 63-64: the handle after a rate-limited call.
CacheHit(d) == [d EXCEPT !.stats.read_success_cached = @ + 1]

\* BeginFresh without the memset of line 68.
BeginFresh_NoMemset(d, start) ==
  [d EXCEPT !.stats.last_read_time = start, !.last_result = FALSE]

\* BeginFresh without the assignment of line 67.
BeginFresh_KeepsFlag(d, start) ==
  [d EXCEPT !.stats.last_read_time = start, !.data = ZeroData]

\* BeginFresh without the assignment of line 66.
BeginFresh_NoTimestamp(d, start) ==
  [d EXCEPT !.last_result = FALSE, !.data = ZeroData]

\* Lines 66-68.
BeginFresh(d, start) ==
  [d EXCEPT !.stats.last_read_time = start,
            !.last_result = FALSE,
            !.data = ZeroData]

\* Line 95.
AckFailed(w1, w2) == w1 = 0 \/ w2 = 0

\* Line 95: what the acknowledgment waits that were made returned; the
\* second is made only if the first did not return 0.
AckReturns(w1, w2) == IF w1 = 0 THEN << w1 >> ELSE << w1, w2 >>

\* The pin run of a call that does not look at the pin.
NoRun == [a1 |-> 0, a2 |-> 0, polls |-> << >>]

\* Lines 102-105: cycles[0..79], kept here as cycles[1..80].
CaptureLoop(polls) ==
  [s \in 1..NumCycles |-> dht_wait(polls[s], SlotTimeoutUsecs)] \o << >>

\* CaptureLoop, computed once for each sequence of polls the environment has.
CaptureMemo == [p \in {r.polls : r \in CaptureRuns} |-> CaptureLoop(p)] @@ << >>

Capture(polls) ==
  IF polls \in DOMAIN CaptureMemo THEN CaptureMemo[polls]
  ELSE CaptureLoop(polls)

\* SlotTimedOut that looks at the low phase only.
SlotTimedOut_LowOnly(usec_low, usec_high) == usec_low = 0

\* Line 115.
SlotTimedOut(usec_low, usec_high) == usec_low = 0 \/ usec_high = 0

\* BitIsOne that takes equal durations for a one.
BitIsOne_OrEqual(usec_low, usec_high) == usec_high >= usec_low

\* Line 121.
BitIsOne(usec_low, usec_high) == usec_high > usec_low

\* Lines 120-123 on a uint8_t: shift left by one, then or in the bit.
ShiftIn(byte, one) == ((byte * 2) % 256) + (IF one THEN 1 ELSE 0)

\* Lines 111-124: the decode loop from bit-slot i on.  done is FALSE when the
\* loop returned false at line 116; bits is the number of bits shifted in.
RECURSIVE DecodeFrom(_, _, _)
DecodeFrom(cycles, i, data) ==
  IF i = NumBits THEN [done |-> TRUE, data |-> data, bits |-> i]
  ELSE LET usec_low == cycles[2 * i + 1]
           usec_high == cycles[2 * i + 2]
           j == (i \div 8) + 1
       IN IF SlotTimedOut(usec_low, usec_high)
          THEN [done |-> FALSE, data |-> data, bits |-> i]
          ELSE DecodeFrom(cycles, i + 1,
                 [data EXCEPT ![j] = ShiftIn(@, BitIsOne(usec_low, usec_high))])

\* DecodeFrom(cycles, 0, ZeroData), computed once for each capture the
\* environment can cause, and FirstZero likewise.
DecodeMemo ==
  [c \in {CaptureMemo[p] : p \in DOMAIN CaptureMemo} |->
     DecodeFrom(c, 0, ZeroData)] @@ << >>

\* Decode that leaves the data buffer as it was when the loop returns false.
Decode_AllOrNothing(cycles, data) ==
  LET r == DecodeFrom(cycles, 0, data) IN
  IF r.done THEN r ELSE [r EXCEPT !.data = data]

\* Lines 111-124: the decode loop, run on the handle's data buffer.
Decode(cycles, data) ==
  IF data = ZeroData /\ cycles \in DOMAIN DecodeMemo THEN DecodeMemo[cycles]
  ELSE DecodeFrom(cycles, 0, data)

\* ChecksumOk with the comparison inverted.
ChecksumOk_Inverted(data) ==
  data[5] # ((data[1] + data[2] + data[3] + data[4]) % 256)

\* Lines 126-127.
ChecksumOk(data) ==
  data[5] = ((data[1] + data[2] + data[3] + data[4]) % 256)

\* Lines 128-131; stop is mg_time() at line 130.
OnSuccess(d, start, stop) ==
  [d EXCEPT !.last_result = TRUE,
            !.stats.read_success = @ + 1,
            !.stats.read_success_usecs = @ + UsecsPerSec * (stop - start),
            !.stats.last_read_time = start]

\* First slot (0..79) of cycles that holds 0, NumCycles if none does.
FirstZeroOf(cycles) ==
  LET Z == {s \in 1..NumCycles : cycles[s] = 0} IN
  IF Z = {} THEN NumCycles
  ELSE (CHOOSE s \in Z : \A r \in Z : s <= r) - 1

FirstZeroMemo ==
  [c \in {CaptureMemo[p] : p \in DOMAIN CaptureMemo} |-> FirstZeroOf(c)] @@ << >>

FirstZero(cycles) ==
  IF cycles \in DOMAIN FirstZeroMemo THEN FirstZeroMemo[cycles]
  ELSE FirstZeroOf(cycles)

\* Line 59: the call on a null handle.
dht_read_null ==
  [ret |-> FALSE, path |-> "null", bus |-> << >>, dht |-> NoDht,
   zero |-> NumCycles, bits |-> 0, cycles |-> << >>, steps |-> << >>,
   acks |-> << >>, seen |-> NoRun]

\* Lines 60-133: the call on handle d that starts at time start, sees the pin
\* behave as run, and reads the clock as stop at the end of a fresh read.
dht_read(d, start, stop, run) ==
  LET d1 == CountRead(d) IN
  IF RateLimited(start, d1.stats.last_read_time)
  THEN [ret |-> d1.last_result, path |-> "cached", bus |-> << >>,
        dht |-> CacheHit(d1), zero |-> NumCycles, bits |-> 0,
        cycles |-> << >>, steps |-> CountWork \o CacheHitWork,
        acks |-> << >>, seen |-> NoRun]
  ELSE
    LET d2 == BeginFresh(d1, start)
        w1 == dht_wait(run.a1, AckTimeoutUsecs)
        w2 == dht_wait(run.a2, AckTimeoutUsecs)
    IN IF AckFailed(w1, w2)
       THEN [ret |-> FALSE, path |-> "ack_timeout",
             bus |-> StartSignal(d2) \o AckWaits(w1) \o AckFailExit,
             dht |-> d2, zero |-> NumCycles, bits |-> 0, cycles |-> << >>,
             steps |-> CountWork \o BeginFreshWork \o StartSignal(d2)
                         \o AckWaits(w1) \o AckFailExit,
             acks |-> AckReturns(w1, w2), seen |-> run]
       ELSE
         LET cycles == Capture(run.polls)
             dec == Decode(cycles, d2.data)
             d3 == [d2 EXCEPT !.data = dec.data]
             trace == StartSignal(d2) \o AckWaits(w1) \o CaptureWaits
                        \o CaptureExit
             work == CountWork \o BeginFreshWork \o trace \o DecodeWork
         IN IF ~dec.done
            THEN [ret |-> FALSE, path |-> "slot_timeout", bus |-> trace,
                  dht |-> d3, zero |-> FirstZero(cycles), bits |-> dec.bits,
                  cycles |-> cycles, steps |-> work,
                  acks |-> AckReturns(w1, w2), seen |-> run]
            ELSE
              LET d4 == IF ChecksumOk(d3.data)
                        THEN OnSuccess(d3, start, stop) ELSE d3
              IN [ret |-> d4.last_result,
                  path |-> IF ChecksumOk(d3.data) THEN "ok" ELSE "checksum",
                  bus |-> trace, dht |-> d4,
                  zero |-> FirstZero(cycles), bits |-> dec.bits,
                  cycles |-> cycles,
                  steps |-> work \o ChecksumWork(ChecksumOk(d3.data)),
                  acks |-> AckReturns(w1, w2), seen |-> run]

----------------------------------------------------------------------------
(* mgos_dht_get_temp, mgos_dht_get_humidity: a float is kept as a number   *)
(* of tenths, or as NaN.                                                   *)

NaN == [nan |-> TRUE, tenths |-> 0]
Num(t) == [nan |-> FALSE, tenths |-> t]

\* TempOf without the sign flip of line 166.
TempOf_NoSign(d) ==
  IF d.type = "DHT11" THEN Num(10 * d.data[3])
  ELSE Num((d.data[3] % 128) * 256 + d.data[4])

\* Lines 159-167.  x & 0x7F is x % 128; x & 0x80 is non-zero iff x >= 128.
TempOf(d) ==
  IF d.type = "DHT11" THEN Num(10 * d.data[3])
  ELSE LET r1 == d.data[3] % 128
           r2 == r1 * 256
           r3 == r2 + d.data[4]
       IN IF (d.data[3] \div 128) % 2 = 1 THEN Num(r3 * (-1)) ELSE Num(r3)

\* Lines 176-183.
HumidityOf(d) ==
  IF d.type = "DHT11" THEN Num(10 * d.data[1])
  ELSE Num(d.data[1] * 256 + d.data[2])

\* mgos_dht_get_temp that converts whatever dht_read returned.
mgos_dht_get_temp_Unchecked(r) == TempOf(r.dht)

\* Lines 156-169: res is NAN unless dht_read returned true.
mgos_dht_get_temp(r) == IF r.ret THEN TempOf(r.dht) ELSE NaN

\* Lines 173-185.
mgos_dht_get_humidity(r) == IF r.ret THEN HumidityOf(r.dht) ELSE NaN

ResultOf(op, r) ==
  IF op = "get_temp" THEN mgos_dht_get_temp(r) ELSE mgos_dht_get_humidity(r)

----------------------------------------------------------------------------
(* mgos_dht_getStats, mgos_dht_create *)

\* mgos_dht_getStats that checks the handle only.
mgos_dht_getStats_HandleOnly(hnull, onull, d, o) ==
  IF hnull THEN [ret |-> FALSE, out |-> o]
  ELSE [ret |-> TRUE, out |-> d.stats]

\* Lines 188-194: hnull, onull say which argument is a null pointer; o is the
\* caller's struct before the call.
mgos_dht_getStats(hnull, onull, d, o) ==
  IF hnull \/ onull THEN [ret |-> FALSE, out |-> o]
  ELSE [ret |-> TRUE, out |-> d.stats]

\* PinConfigured that looks at mgos_gpio_set_mode only.
PinConfigured_ModeOnly(mode_ok, pull_ok) == mode_ok

\* Lines 142-143: mode_ok, pull_up_ok are what the two gpio calls return.
PinConfigured(mode_ok, pull_ok) == mode_ok /\ pull_ok

\* Lines 137-147: alloc_ok says whether calloc returned memory.  handle is
\* TRUE iff a handle is returned, dht is the struct behind it, bus the
\* collaborator calls made; mgos_gpio_set_pull is called only if
\* mgos_gpio_set_mode succeeded (line 142).
mgos_dht_create(pin, type, alloc_ok, mode_ok, pull_ok) ==
  IF ~alloc_ok
  THEN [handle |-> FALSE, dht |-> NoDht, bus |-> << Call("calloc", 0, 0) >>]
  ELSE
    LET d == NewDht(pin, type)
        gpio == IF mode_ok
                THEN << Call("set_mode_input", pin, 0), Call("set_pull_up", pin, 0) >>
                ELSE << Call("set_mode_input", pin, 0) >>
    IN IF PinConfigured(mode_ok, pull_ok)
       THEN [handle |-> TRUE, dht |-> d,
             bus |-> << Call("calloc", 1, 0) >> \o gpio]
       ELSE [handle |-> FALSE, dht |-> NoDht,
             bus |-> << Call("calloc", 1, 0) >> \o gpio
                       \o << Call("free", 1, 0) >>]

----------------------------------------------------------------------------
(* Interrupt masking *)

\* mgos_ints_disable calls less mgos_ints_enable calls in a trace.
IntsDeltaOf(trace) ==
  Cardinality({i \in 1..Len(trace) : trace[i].op = "ints_disable"})
  - Cardinality({i \in 1..Len(trace) : trace[i].op = "ints_enable"})

\* The traces a read can leave, and IntsDeltaOf computed once for each.
BusTraces ==
  {<< >>}
  \cup {StartSignal(NewDht(p, t)) \o AckWaits(w1) \o tail :
          p \in Pins, t \in Types, w1 \in {0, 1},
          tail \in {AckFailExit, CaptureWaits \o CaptureExit}}

IntsDeltaMemo == [t \in BusTraces |-> IntsDeltaOf(t)] @@ << >>

IntsDelta(trace) ==
  IF trace \in DOMAIN IntsDeltaMemo THEN IntsDeltaMemo[trace]
  ELSE IntsDeltaOf(trace)

\* Depth of masking after the collaborator calls of trace, made at depth.
IntsAfter(depth, trace) == depth + IntsDelta(trace)

----------------------------------------------------------------------------
(* The state machine *)

\* waiting while no critical section is run poll by poll: pc is where
\* dht_read is, k the number of dht_wait calls it has made since
\* mgos_ints_disable, t the local of dht_wait, polls the mgos_gpio_read calls
\* of the current dht_wait; ret is what the dht_wait before returned, made
\* the polls it made and lead the number of leading polls at which it saw
\* the pin differ from lvl.
NotWaiting ==
  [pc |-> "idle", k |-> 0, t |-> 0, polls |-> 0, ret |-> 0, made |-> 0,
   lead |-> 0]

ReadOps == {"get_temp", "get_humidity"}

\* last: op is the API operation, null and outnull say which pointer
\* arguments were null, start is mg_time() when it was called, path is the
\* return statement of dht_read it left by, ret is what dht_read (or the
\* operation itself, for create and getStats) returned, res the float it
\* returned, zero the first capture slot that held 0, bits the number of bits
\* the decode loop shifted in, out0 and out the caller's struct
\* mgos_dht_stats before and after the call.
\* alloc_ok, mode_ok and pull_ok are what calloc and the two gpio calls of
\* mgos_dht_create returned; cycles is the array cycles of dht_read after
\* the capture loop, slot 0 first, empty if the loop was not reached; steps
\* is what dht_read did, collaborator calls and work on the handle, in the
\* order of the program; acks is what the acknowledgment waits it made
\* returned, seen the pin run it was given.
NoCall == [op |-> "none", null |-> FALSE, outnull |-> FALSE, start |-> 0,
           path |-> "none", ret |-> FALSE, res |-> NaN, zero |-> NumCycles,
           bits |-> 0, out0 |-> ZeroStats, out |-> ZeroStats,
           alloc_ok |-> FALSE, mode_ok |-> FALSE, pull_ok |-> FALSE,
           cycles |-> << >>, steps |-> << >>, acks |-> << >>, seen |-> NoRun]

\* What the caller's struct mgos_dht_stats may hold before mgos_dht_getStats.
OutBefore ==
  {ZeroStats,
   [last_read_time |-> 1, read |-> 9, read_success |-> 8,
    read_success_cached |-> 7, read_success_usecs |-> 6]}

Init ==
  /\ created = FALSE
  /\ dht = NoDht
  /\ now = 0
  /\ ints = 0
  /\ bus = << >>
  /\ last = NoCall
  /\ cnt = [N |-> 0, M |-> 0, S |-> 0, F |-> 0, R |-> FALSE]
  /\ waiting = NotWaiting

\* The clock advances between calls.
Tick ==
  /\ now < MaxTime
  /\ now' = now + 1
  /\ UNCHANGED <<created, dht, ints, bus, last, cnt, waiting>>

\* mgos_dht_create(pin, type), lines 136-148.
Create ==
  /\ ~created
  /\ \E pin \in Pins, type \in Types, alloc_ok \in BOOLEAN,
        mode_ok \in BOOLEAN, pull_ok \in BOOLEAN :
       LET r == mgos_dht_create(pin, type, alloc_ok, mode_ok, pull_ok) IN
       /\ created' = r.handle
       /\ dht' = r.dht
       /\ bus' = r.bus
       /\ last' = [NoCall EXCEPT !.op = "create", !.start = now,
                                 !.ret = r.handle, !.alloc_ok = alloc_ok,
                                 !.mode_ok = mode_ok, !.pull_ok = pull_ok]
  /\ cnt' = [N |-> 0, M |-> 0, S |-> 0, F |-> 0, R |-> FALSE]
  /\ UNCHANGED <<now, ints, waiting>>

\* mgos_dht_close(dht), lines 150-153.
Close ==
  /\ created
  /\ created' = FALSE
  /\ dht' = NoDht
  /\ last' = [NoCall EXCEPT !.op = "close", !.start = now]
  /\ bus' = << Call("free", 1, 0) >>
  /\ UNCHANGED <<now, ints, cnt, waiting>>

\* The caller passes a null handle to a read operation.
ReadNull(op) ==
  LET r == dht_read_null IN
  /\ last' = [NoCall EXCEPT !.op = op, !.null = TRUE, !.start = now,
                            !.path = r.path, !.ret = r.ret,
                            !.res = ResultOf(op, r), !.zero = r.zero,
                            !.bits = r.bits, !.cycles = r.cycles,
                            !.steps = r.steps, !.acks = r.acks,
                            !.seen = r.seen]
  /\ bus' = r.bus
  /\ UNCHANGED <<created, dht, now, ints, cnt, waiting>>

\* The state after read operation op on the handle, dht_read having gone as r.
Finish(op, r, stop) ==
  /\ dht' = r.dht
  /\ now' = stop
  /\ bus' = r.bus
  /\ ints' = IntsAfter(ints, r.bus)
  /\ last' = [NoCall EXCEPT !.op = op, !.null = FALSE, !.start = now,
                            !.path = r.path, !.ret = r.ret,
                            !.res = ResultOf(op, r), !.zero = r.zero,
                            !.bits = r.bits, !.cycles = r.cycles,
                            !.steps = r.steps, !.acks = r.acks,
                            !.seen = r.seen]
  /\ cnt' = [N |-> cnt.N + 1,
             M |-> cnt.M + (IF r.bus = << >> THEN 1 ELSE 0),
             S |-> cnt.S + (IF r.ret /\ r.bus # << >> THEN 1 ELSE 0),
             F |-> IF r.bus = << >> THEN cnt.F ELSE now,
             R |-> r.ret]
  /\ UNCHANGED <<created, waiting>>

\* A read operation on the handle.  A rate-limited call looks neither at the
\* pin nor at the clock again.  A fresh call sees some pin run of runs; it
\* reads the clock again (line 130) only when the checksum is good, and then
\* sees some later time.
ReadHandle(op, runs) ==
  /\ created
  /\ IF RateLimited(now, dht.stats.last_read_time)
     THEN \E r \in {dht_read(dht, now, now, CHOOSE run \in AckFailRuns : TRUE)} :
            Finish(op, r, now)
     ELSE \E run \in runs :
            \E r \in {dht_read(dht, now, now, run)} :
              IF r.path = "ok"
              THEN \E stop \in now..Min(now + MaxElapsed, MaxTime) :
                     Finish(op, dht_read(dht, now, stop, run), stop)
              ELSE Finish(op, r, now)

\* mgos_dht_get_temp(dht), lines 155-170.
GetTemp ==
  \/ ReadNull("get_temp")
  \/ cnt.N < MaxReads /\ ReadHandle("get_temp", PinRuns)

\* mgos_dht_get_humidity(dht), lines 172-186.
GetHumidity ==
  \/ ReadNull("get_humidity")
  \/ cnt.N < MaxReads /\ ReadHandle("get_humidity", PinRuns)

\* mgos_dht_getStats(dht, stats), lines 188-194.
GetStats ==
  \E hnull \in BOOLEAN, onull \in BOOLEAN, o \in OutBefore :
    /\ created \/ hnull
    /\ LET r == mgos_dht_getStats(hnull, onull, dht, o) IN
       last' = [NoCall EXCEPT !.op = "getStats", !.null = hnull,
                              !.outnull = onull, !.start = now,
                              !.ret = r.ret, !.out0 = o, !.out = r.out]
    /\ bus' = << >>
    /\ UNCHANGED <<created, dht, now, ints, cnt, waiting>>

Next == Tick \/ Create \/ Close \/ GetTemp \/ GetHumidity \/ GetStats

Spec == Init /\ [][Next]_vars

----------------------------------------------------------------------------
(* One fresh read under every pin run.  The handle has made one good read  *)
(* MGOS_DHT_READ_DELAY seconds after its creation at time 0, and the next  *)
(* read starts another MGOS_DHT_READ_DELAY seconds later.                  *)

GoodRun == Run(40, 80, CleanScript(FrameNegative, ZeroHighPolls))

InitCapture ==
  /\ created = TRUE
  /\ \E pin \in Pins, type \in Types, op \in ReadOps :
       LET t == MGOS_DHT_READ_DELAY
           r == dht_read(NewDht(pin, type), t, t, GoodRun)
       IN /\ dht = r.dht
          /\ bus = r.bus
          /\ last = [NoCall EXCEPT !.op = op, !.start = t, !.path = r.path,
                                   !.ret = r.ret, !.res = ResultOf(op, r),
                                   !.zero = r.zero, !.bits = r.bits,
                                   !.cycles = r.cycles, !.steps = r.steps,
                                   !.acks = r.acks, !.seen = r.seen]
  /\ now = 2 * MGOS_DHT_READ_DELAY
  /\ ints = 0
  /\ cnt = [N |-> 1, M |-> 0, S |-> 1, F |-> MGOS_DHT_READ_DELAY, R |-> TRUE]
  /\ waiting = NotWaiting

CaptureTemp == cnt.N = 1 /\ ReadHandle("get_temp", CaptureRuns)

CaptureHumidity == cnt.N = 1 /\ ReadHandle("get_humidity", CaptureRuns)

NextCapture == CaptureTemp \/ CaptureHumidity

SpecCapture == InitCapture /\ [][NextCapture]_vars

----------------------------------------------------------------------------
(* The conversions on every validated buffer over ByteSamples.  The handle *)
(* has made one good read of the frame at time MGOS_DHT_READ_DELAY, and    *)
(* the next read operation, made at once, is rate-limited.                 *)

ByteSamples == {0, 25, 127, 128, 255}

SampleFrames ==
  {<<b0, b1, b2, b3, (b0 + b1 + b2 + b3) % 256>> :
     b0 \in ByteSamples, b1 \in ByteSamples, b2 \in ByteSamples,
     b3 \in ByteSamples}
  \cup {FrameDht11, FrameNegative}

InitConvert ==
  /\ created = TRUE
  /\ \E pin \in Pins, type \in Types, f \in SampleFrames :
       LET t == MGOS_DHT_READ_DELAY
           r == dht_read(NewDht(pin, type), t, t,
                         Run(40, 80, CleanScript(f, ZeroHighPolls)))
       IN /\ dht = r.dht
          /\ bus = r.bus
          /\ last = [NoCall EXCEPT !.op = "get_temp", !.start = t,
                                   !.path = r.path, !.ret = r.ret,
                                   !.res = ResultOf("get_temp", r),
                                   !.zero = r.zero, !.bits = r.bits,
                                   !.cycles = r.cycles, !.steps = r.steps,
                                   !.acks = r.acks, !.seen = r.seen]
  /\ now = MGOS_DHT_READ_DELAY
  /\ ints = 0
  /\ cnt = [N |-> 1, M |-> 0, S |-> 1, F |-> MGOS_DHT_READ_DELAY, R |-> TRUE]
  /\ waiting = NotWaiting

ConvertTemp == cnt.N = 1 /\ ReadHandle("get_temp", {})

ConvertHumidity == cnt.N = 1 /\ ReadHandle("get_humidity", {})

NextConvert == ConvertTemp \/ ConvertHumidity

SpecConvert == InitConvert /\ [][NextConvert]_vars

----------------------------------------------------------------------------
(* The critical section of dht_read, lines 87-108, run one poll of the pin *)
(* at a time on a pin that reads anything at each poll.                    *)

\* dht_wait call number k (1, 2 the acknowledgment waits of line 95, 3..82
\* the capture waits of lines 103-104) waits for at most WaitUsecs(k).
WaitUsecs(k) == IF k <= 2 THEN AckTimeoutUsecs ELSE SlotTimeoutUsecs

\* Line 44, in call number k; ret, made and lead are of the call before.
StartWait(k, ret, made, lead) ==
  [pc |-> "poll", k |-> k, t |-> 0, polls |-> 0, ret |-> ret, made |-> made,
   lead |-> lead]

\* dht_wait call number waiting.k returns v at its poll number waiting.polls
\* + 1, having seen lead leading polls differ: lines 95-98 for the
\* acknowledgment waits, 102-108 for the others.
AfterWait(v, lead) ==
  IF (waiting.k <= 2 /\ v = 0) \/ waiting.k = NumCycles + 2
  THEN /\ ints' = ints - 1
       /\ waiting' = [waiting EXCEPT !.pc = "done", !.ret = v,
                                     !.made = waiting.polls + 1,
                                     !.lead = lead]
  ELSE /\ ints' = ints
       /\ waiting' = StartWait(waiting.k + 1, v, waiting.polls + 1, lead)

\* Line 87 to the first mgos_gpio_read of line 95.
EnterCritical ==
  /\ waiting.pc = "idle"
  /\ ints' = ints + 1
  /\ waiting' = StartWait(1, 0, 0, 0)
  /\ UNCHANGED <<created, dht, now, bus, last, cnt>>

\* Line 45 true: the pin differs from lvl; lines 46-51.
PollDiffers ==
  /\ waiting.pc = "poll"
  /\ waiting.polls < MaxPolls
  /\ IF TimedOut(waiting.t, WaitUsecs(waiting.k))
     THEN AfterWait(0, waiting.t + 1)
     ELSE /\ waiting' = [waiting EXCEPT !.t = @ + 1, !.polls = @ + 1,
                                        !.ret = 0, !.made = 0, !.lead = 0]
          /\ ints' = ints
  /\ UNCHANGED <<created, dht, now, bus, last, cnt>>

\* Line 45 false: the pin reads lvl; line 53.
PollMatches ==
  /\ waiting.pc = "poll"
  /\ waiting.polls < MaxPolls
  /\ AfterWait(waiting.t, waiting.t)
  /\ UNCHANGED <<created, dht, now, bus, last, cnt>>

\* The critical section was left at line 96 or 108.
LeaveCritical ==
  /\ waiting.pc = "done"
  /\ waiting' = NotWaiting
  /\ UNCHANGED <<created, dht, now, ints, bus, last, cnt>>

InitWait ==
  /\ created = TRUE
  /\ \E pin \in Pins : dht = NewDht(pin, "DHT22")
  /\ now = MGOS_DHT_READ_DELAY
  /\ ints = 0
  /\ bus = << >>
  /\ last = NoCall
  /\ cnt = [N |-> 0, M |-> 0, S |-> 0, F |-> 0, R |-> FALSE]
  /\ waiting = NotWaiting

NextWait == EnterCritical \/ PollDiffers \/ PollMatches \/ LeaveCritical

\* With interrupts disabled nothing keeps the processor from the next poll.
SpecWait ==
  InitWait /\ [][NextWait]_vars /\ WF_vars(PollDiffers \/ PollMatches)

----------------------------------------------------------------------------
(* Claims *)

\* A step that is a read operation on the handle.
ReadStep == cnt'.N = cnt.N + 1

\* The read operation of this step starts less than MGOS_DHT_READ_DELAY
\* seconds after the time in stats.last_read_time.
WithinDelay == now - dht.stats.last_read_time < MGOS_DHT_READ_DELAY

\* The call before this step was the same read operation on the handle.
SameOpAgain == last.op \in ReadOps /\ ~last.null /\ last'.op = last.op

\* C1 as stated: two calls of the same read operation on the handle whose
\* start times are less than the minimum interval apart return the same
\* result.
C1_TwoCallsWithinInterval ==
  [][(ReadStep /\ SameOpAgain
        /\ last'.start - last.start < MGOS_DHT_READ_DELAY)
       => last'.res = last.res]_vars

\* C1, amended: a call of a read operation that starts less than the minimum
\* interval after stats.last_read_time (the start of the last fresh attempt)
\* returns the same result as the call right before it, if that was the same
\* operation on the handle, whatever the pin does.
C1_RateLimitedCallRepeatsResult ==
  [][(ReadStep /\ SameOpAgain /\ WithinDelay) => last'.res = last.res]_vars

\* A rate-limited call has returned a number: the one of the call before it.
C1_Witness ==
  /\ last.op \in ReadOps /\ ~last.null
  /\ last.path = "cached" /\ ~last.res.nan
  /\ cnt.N >= 2 /\ cnt.M >= 1 /\ cnt.S >= 1

\* C2 as stated: a rate-limited call increments the cache-hit counter and
\* leaves the attempt counter, the success counter, the success-time counter
\* and the last-read timestamp unchanged.
C2_OnlyCacheHitCounterMoves ==
  [][(ReadStep /\ WithinDelay)
       => /\ dht'.stats.read_success_cached = dht.stats.read_success_cached + 1
          /\ dht'.stats.read = dht.stats.read
          /\ dht'.stats.read_success = dht.stats.read_success
          /\ dht'.stats.read_success_usecs = dht.stats.read_success_usecs
          /\ dht'.stats.last_read_time = dht.stats.last_read_time]_vars

\* C2, amended: a rate-limited call increments the cache-hit counter and the
\* attempt counter by one each, and leaves the success counter, the
\* success-time counter and the last-read timestamp unchanged.
C2_CacheHitAndAttemptCountersMove ==
  [][(ReadStep /\ WithinDelay)
       => /\ dht'.stats.read_success_cached = dht.stats.read_success_cached + 1
          /\ dht'.stats.read = dht.stats.read + 1
          /\ dht'.stats.read_success = dht.stats.read_success
          /\ dht'.stats.read_success_usecs = dht.stats.read_success_usecs
          /\ dht'.stats.last_read_time = dht.stats.last_read_time]_vars

\* A rate-limited call was made after a good fresh read, so that every
\* statistic has a value a call can change.
C2_Witness ==
  /\ last.op \in ReadOps /\ ~last.null /\ last.path = "cached"
  /\ dht.stats.read_success >= 1
  /\ dht.stats.last_read_time >= MGOS_DHT_READ_DELAY
  /\ last.start > dht.stats.last_read_time

\* C3: the attempt counter is the number of read calls on the handle, the
\* cache-hit counter the number of them that were rate-limited, the success
\* counter the number of fresh ones that returned true, successes are at
\* most the calls that were not rate-limited, and no counter of a handle
\* ever decreases.
C3_StatsCountCalls ==
  /\ [](created =>
          /\ dht.stats.read = cnt.N
          /\ dht.stats.read_success_cached = cnt.M
          /\ dht.stats.read_success = cnt.S
          /\ dht.stats.read_success <= cnt.N - cnt.M
          /\ dht.stats.read_success <= dht.stats.read)
  /\ [][(created /\ created')
          => /\ dht'.stats.read >= dht.stats.read
             /\ dht'.stats.read_success >= dht.stats.read_success
             /\ dht'.stats.read_success_cached >= dht.stats.read_success_cached
             /\ dht'.stats.read_success_usecs >= dht.stats.read_success_usecs]_vars

\* Three calls on one handle: one rate-limited, one fresh and good, one
\* fresh and failed.
C3_Witness ==
  created /\ cnt.N = 3 /\ cnt.M = 1 /\ cnt.S = 1

\* The collaborator calls of the last call include the 80 capture waits.
Captured(trace) == Len(trace) > NumCycles

\* The checksum byte of data is not the low 8 bits of the sum of the others.
ChecksumMismatch(data) ==
  \A k \in 0..3 : data[5] + 256 * k # data[1] + data[2] + data[3] + data[4]

\* C4: a fresh read that captured 80 non-zero timings and decoded a byte 4
\* that is not the sum of bytes 0..3 mod 256 returns false, leaves the
\* last-result flag false, increments neither the success counter nor the
\* success-time counter, and the operation returns not-a-number.
C4_ChecksumMismatchFails ==
  [][(ReadStep /\ ~WithinDelay /\ Captured(bus') /\ last'.zero = NumCycles
        /\ ChecksumMismatch(dht'.data))
       => /\ ~last'.ret
          /\ ~dht'.last_result
          /\ dht'.stats.read_success = dht.stats.read_success
          /\ dht'.stats.read_success_usecs = dht.stats.read_success_usecs
          /\ last'.res = NaN]_vars

\* A fresh read decoded all 40 bits of a frame whose checksum is wrong, on a
\* handle whose read before was good.
C4_Witness ==
  /\ last.op \in ReadOps /\ last.path = "checksum"
  /\ last.zero = NumCycles /\ last.bits = NumBits
  /\ ChecksumMismatch(dht.data) /\ dht.data # ZeroData
  /\ cnt.S >= 1

\* C5: a fresh read that captured a 0 in any of the 80 slots returns false,
\* leaves the last-result flag false and increments no success counter; the
\* decode loop shifts in no bit of the pair that holds the first 0 nor of any
\* later pair.
C5_ZeroSlotFails ==
  [][(ReadStep /\ last'.zero < NumCycles)
       => /\ ~last'.ret
          /\ ~dht'.last_result
          /\ dht'.stats.read_success = dht.stats.read_success
          /\ dht'.stats.read_success_usecs = dht.stats.read_success_usecs
          /\ last'.res = NaN
          /\ 2 * last'.bits <= last'.zero]_vars

\* A fresh read captured its first 0 in the high phase of a bit-slot in the
\* middle of the frame, the low phase of that slot being good.
C5_Witness ==
  /\ last.op \in ReadOps /\ last.path = "slot_timeout"
  /\ last.zero % 2 = 1 /\ last.zero > NumBits /\ last.zero < NumCycles - 2
  /\ cnt.N = 2

\* Positions in a trace of the calls of one collaborator operation.
CallsOf(trace, op) == {i \in 1..Len(trace) : trace[i].op = op}

\* C6: after every read call interrupts are enabled, and the call made as
\* many mgos_ints_enable as mgos_ints_disable, each disable followed by an
\* enable.
C6_InterruptsRestored ==
  /\ ints = 0
  /\ Cardinality(CallsOf(bus, "ints_disable"))
       = Cardinality(CallsOf(bus, "ints_enable"))
  /\ \A d \in CallsOf(bus, "ints_disable") :
       \E e \in CallsOf(bus, "ints_enable") : e > d
  /\ \A e \in CallsOf(bus, "ints_enable") :
       \E d \in CallsOf(bus, "ints_disable") : d < e

\* A read left by the early return of the acknowledgment phase, having
\* disabled interrupts once.
C6_Witness ==
  /\ last.op \in ReadOps /\ last.path = "ack_timeout"
  /\ Cardinality(CallsOf(bus, "ints_disable")) = 1
  /\ ints = 0

\* C7 as stated: a fresh read that the sensor does not acknowledge returns
\* false, leaves the last-result flag false, and leaves the 5 data bytes as
\* they were before the call.
C7_AckTimeoutKeepsData ==
  [][(ReadStep /\ last'.path = "ack_timeout")
       => /\ ~last'.ret
          /\ ~dht'.last_result
          /\ dht'.data = dht.data]_vars

\* C7, amended: a fresh read that the sensor does not acknowledge returns
\* false, leaves the last-result flag false, and leaves the 5 data bytes all
\* zero, whatever they were before the call.
C7_AckTimeoutClearsData ==
  (last.op \in ReadOps /\ last.path = "ack_timeout")
    => /\ ~last.ret
       /\ ~dht.last_result
       /\ dht.data = ZeroData
       /\ last.res = NaN

\* An unacknowledged fresh read on a handle whose read before was good.
C7_Witness ==
  /\ last.op \in ReadOps /\ last.path = "ack_timeout"
  /\ cnt.S >= 1 /\ cnt.N >= 2
  /\ ~Captured(bus) /\ bus # << >>

\* C8: a read operation returns a number exactly when dht_read returned
\* true; it returns not-a-number on a null handle, an acknowledgment
\* timeout, a bit-slot timeout, a checksum mismatch, and on a rate-limited
\* call when the last result is a failure.
C8_NaNIffReadFailed ==
  last.op \in ReadOps
    => /\ last.res.nan <=> ~last.ret
       /\ last.null => (last.res = NaN /\ last.path = "null")
       /\ last.path \in {"null", "ack_timeout", "slot_timeout", "checksum"}
            => last.res = NaN
       /\ (last.path = "cached" /\ ~dht.last_result) => last.res = NaN
       /\ (last.path = "cached" /\ dht.last_result) => ~last.res.nan
       /\ last.path = "ok" => ~last.res.nan

\* A rate-limited call returned not-a-number after a fresh read that failed.
C8_Witness ==
  /\ last.op \in ReadOps /\ last.path = "cached"
  /\ ~dht.last_result /\ last.res = NaN
  /\ dht.stats.last_read_time >= MGOS_DHT_READ_DELAY

\* The formulas of the claim, in tenths, on bytes b[1..5] = byte0..byte4.
RefTemp(type, b) ==
  IF type = "DHT11" THEN 10 * b[3]
  ELSE IF b[3] >= 128 THEN 0 - ((b[3] - 128) * 256 + b[4])
  ELSE b[3] * 256 + b[4]

RefHumidity(type, b) ==
  IF type = "DHT11" THEN 10 * b[1] ELSE b[1] * 256 + b[2]

\* C9: whenever a read operation returns a number, it is the claim's formula
\* of the handle's data bytes; DHT11 bytes 0x32 0x00 0x19 0x00 0x4B give
\* humidity 50.0 and temperature 25.0, and bytes 0x02 0x8C 0x80 0x19 0x27 of
\* another variant give temperature -2.5 and humidity 65.2.
C9_ConversionsMatchFormulas ==
  (last.op \in ReadOps /\ last.ret)
    => /\ ChecksumOk(dht.data)
       /\ last.op = "get_temp"
            => last.res = [nan |-> FALSE, tenths |-> RefTemp(dht.type, dht.data)]
       /\ last.op = "get_humidity"
            => last.res = [nan |-> FALSE,
                           tenths |-> RefHumidity(dht.type, dht.data)]
       /\ (dht.type = "DHT11" /\ dht.data = <<50, 0, 25, 0, 75>>)
            => last.res.tenths = (IF last.op = "get_temp" THEN 250 ELSE 500)
       /\ (dht.type # "DHT11" /\ dht.data = <<2, 140, 128, 25, 39>>)
            => last.res.tenths = (IF last.op = "get_temp" THEN 0 - 25 ELSE 652)

\* The temperature of a sub-zero reading of a higher-precision variant was
\* returned.
C9_Witness ==
  /\ last.op = "get_temp" /\ last.ret /\ last.path = "cached"
  /\ dht.type = "DHT22" /\ dht.data = <<2, 140, 128, 25, 39>>
  /\ last.res.tenths < 0

\* C10: mgos_dht_getStats returns false exactly when the handle or the
\* destination is null, and then leaves the destination as it was; when it
\* returns true the destination equals the handle's statistics.  The call
\* changes nothing of the handle and makes no collaborator call.
C10_GetStatsCopiesOrFails ==
  /\ [](last.op = "getStats"
          => /\ last.ret <=> ~(last.null \/ last.outnull)
             /\ ~last.ret => last.out = last.out0
             /\ last.ret => (created /\ last.out = dht.stats)
             /\ bus = << >>)
  /\ [][last'.op = "getStats"
          => /\ dht' = dht
             /\ created' = created
             /\ ints' = ints
             /\ cnt' = cnt]_vars

\* A snapshot taken after two read calls into a destination that held other
\* values.
C10_Witness ==
  /\ last.op = "getStats" /\ last.ret
  /\ last.out.read >= 2 /\ last.out.read_success >= 1
  /\ last.out0 # ZeroStats /\ last.out # last.out0

\* C11: mgos_dht_create returns a handle only if mgos_gpio_set_mode and
\* mgos_gpio_set_pull both succeeded; if either fails no handle exists after
\* the call and the memory it allocated has been freed.  A returned handle
\* has all statistics zero, last_result false and an all-zero data buffer.
C11_CreateAllOrNothing ==
  last.op = "create"
    => /\ last.ret <=> created
       /\ created => (last.alloc_ok /\ last.mode_ok /\ last.pull_ok)
       /\ ~(last.mode_ok /\ last.pull_ok)
            => /\ ~created
               /\ Cardinality(CallsOf(bus, "free"))
                    = Cardinality({i \in CallsOf(bus, "calloc") : bus[i].a = 1})
       /\ created
            => /\ dht.stats = ZeroStats
               /\ ~dht.last_result
               /\ dht.data = ZeroData
               /\ CallsOf(bus, "free") = {}

\* A handle was created at a time at which an earlier handle on the same pin
\* can have been read and closed.
C11_Witness ==
  /\ last.op = "create" /\ created /\ last.ret
  /\ last.start >= MGOS_DHT_READ_DELAY
  /\ Len(bus) = 3

\* A handshake was made on the handle before this step, and the read
\* operation of this step starts less than MGOS_DHT_READ_DELAY seconds after
\* the start of the last call that made one.
SoonAfterFresh == cnt.N > cnt.M /\ now - cnt.F < MGOS_DHT_READ_DELAY

\* C12: a read call that starts less than 2 seconds after the start of the
\* last fresh attempt, whether that succeeded or failed, makes no
\* collaborator call, leaves the data buffer, last_result and last_read_time
\* unchanged and returns what the previous read returned; and two calls that
\* make a handshake on one handle start at least 2 seconds apart.
C12_RateLimitKeyedOnFreshStart ==
  /\ [][(ReadStep /\ SoonAfterFresh)
          => /\ bus' = << >>
             /\ ints' = ints
             /\ dht'.data = dht.data
             /\ dht'.last_result = dht.last_result
             /\ dht'.stats.last_read_time = dht.stats.last_read_time
             /\ last'.ret = cnt.R
             /\ last'.res.nan = ~cnt.R]_vars
  /\ [][(ReadStep /\ cnt.N > cnt.M /\ bus' # << >>)
          => now - cnt.F >= MGOS_DHT_READ_DELAY]_vars

\* A rate-limited call returned failure after a fresh read that failed, and
\* started later than that one.
C12_Witness ==
  /\ last.op \in ReadOps /\ ~last.null /\ bus = << >>
  /\ cnt.N > cnt.M /\ ~cnt.R /\ ~last.ret
  /\ cnt.F >= MGOS_DHT_READ_DELAY /\ last.start > cnt.F
  /\ dht.data # ZeroData

\* Bit at position pos (0 the least significant) of a byte.
BitAt(byte, pos) == (byte \div Pow2(pos)) % 2

\* Every capture slot holds a non-zero duration.
AllNonZero(cycles) ==
  Len(cycles) = NumCycles /\ \A s \in 1..NumCycles : cycles[s] # 0

\* C13: after a read that captured 80 non-zero durations, bit 7 - (i mod 8)
\* of data byte i/8 is 1 if cycles[2i+1] > cycles[2i] and 0 otherwise, equal
\* durations included, for every i in 0..39; if every high phase is longer
\* than its low phase the five bytes are 0xFF, and if none is they are 0x00.
C13_BitsDecodedMsbFirst ==
  (last.op \in ReadOps /\ AllNonZero(last.cycles))
    => /\ \A i \in 0..(NumBits - 1) :
            BitAt(dht.data[(i \div 8) + 1], 7 - (i % 8))
              = (IF last.cycles[2 * i + 2] > last.cycles[2 * i + 1]
                 THEN 1 ELSE 0)
       /\ \A j \in 1..DataLen : dht.data[j] \in 0..255
       /\ (\A i \in 0..(NumBits - 1) :
              last.cycles[2 * i + 2] > last.cycles[2 * i + 1])
            => dht.data = <<255, 255, 255, 255, 255>>
       /\ (\A i \in 0..(NumBits - 1) :
              last.cycles[2 * i + 2] <= last.cycles[2 * i + 1])
            => dht.data = <<0, 0, 0, 0, 0>>

\* A read decoded 40 bits, some of them ones, from high phases of which some
\* were as long as their low phases, on a handle whose data buffer held other
\* bytes before.
C13_Witness ==
  /\ last.op \in ReadOps /\ AllNonZero(last.cycles)
  /\ \E i \in 0..(NumBits - 1) : last.cycles[2 * i + 2] = last.cycles[2 * i + 1]
  /\ \E i \in 0..(NumBits - 1) : last.cycles[2 * i + 2] > last.cycles[2 * i + 1]
  /\ dht.data = FrameNegative
  /\ cnt.N >= 2 /\ cnt.S >= 2

\* The handle after a fresh read that started at time start on handle d and
\* was left by the early return of the acknowledgment phase.
AfterAckTimeout(d, start) ==
  [d EXCEPT !.stats.read = @ + 1,
            !.stats.last_read_time = start,
            !.last_result = FALSE,
            !.data = <<0, 0, 0, 0, 0>>]

\* Number of bits that byte j (0..4) has received when k bits were decoded.
BitsInByte(k, j) ==
  IF k <= 8 * j THEN 0 ELSE IF k >= 8 * j + 8 THEN 8 ELSE k - 8 * j

\* data holds the first k bits of cycles, each byte filled from its least
\* significant end, and nothing else.
HoldsFirstBits(data, cycles, k) ==
  /\ \A i \in 0..(k - 1) :
       LET j == i \div 8 IN
       BitAt(data[j + 1], BitsInByte(k, j) - 1 - (i % 8))
         = (IF cycles[2 * i + 2] > cycles[2 * i + 1] THEN 1 ELSE 0)
  /\ \A j \in 0..(DataLen - 1) :
       LET m == BitsInByte(k, j) IN
       data[j + 1] \in 0..((IF m = 8 THEN 256 ELSE Pow2(m)) - 1)

\* C14 as stated: a fresh read whose first zero duration is in bit-slot k
\* returns failure and leaves the handle as an acknowledgment timeout would,
\* with no decoded bit of slots 0..k-1 in the data buffer.
C14_SlotTimeoutLeavesNoBits ==
  [][(ReadStep /\ last'.zero < NumCycles)
       => /\ ~last'.ret
          /\ dht'.data = <<0, 0, 0, 0, 0>>
          /\ dht' = AfterAckTimeout(dht, now)]_vars

\* C14, amended: a fresh read whose first zero duration is in bit-slot k
\* returns failure and not-a-number, and leaves the handle as an
\* acknowledgment timeout would except for the data buffer, which holds the
\* k bits decoded from slots 0..k-1.
C14_SlotTimeoutKeepsDecodedBits ==
  [][(ReadStep /\ last'.zero < NumCycles)
       => /\ ~last'.ret
          /\ last'.res = NaN
          /\ last'.bits = last'.zero \div 2
          /\ dht' = [AfterAckTimeout(dht, now) EXCEPT !.data = dht'.data]
          /\ HoldsFirstBits(dht'.data, last'.cycles, last'.zero \div 2)]_vars

\* A fresh read found its first zero duration after the first byte, which
\* holds a one bit, was decoded.
C14_Witness ==
  /\ last.op \in ReadOps /\ last.path = "slot_timeout"
  /\ last.zero \div 2 > 8 /\ last.zero \div 2 < 37
  /\ dht.data[1] = 2 /\ dht.data[2] # 0
  /\ ~dht.last_result

\* Position i is inside the critical section: some mgos_ints_disable (at a
\* position of D) before it has no mgos_ints_enable (at a position of E)
\* between it and i.
InCritical(D, E, i) ==
  \E d \in D : d < i /\ \A e \in E : ~(d < e /\ e < i)

\* At position i the pin is an input with pull-up: the last mode set before
\* i is to input (a position of MI, none of MO after it), and the pull-up
\* was set after it (a position of PU).
InputPullUp(MI, MO, PU, i) ==
  \E m \in MI :
    /\ m < i
    /\ \A o \in MO : ~(m < o /\ o < i)
    /\ \E p \in PU : m < p /\ p < i

\* The sleep that holds the initiation pulse of a handle of the type.
HoldCall(type) ==
  IF type = "ITEAD_SI7021" THEN Call("usleep", 500, 0) ELSE Call("msleep", 18, 0)

\* Before position d of trace t the pin was set to output, driven low and
\* held low for the time of the type, in this order, and stayed an output.
PulseHeldBefore(t, d, type) ==
  \E o \in CallsOf(t, "set_mode_output"), w \in CallsOf(t, "write") :
    \E h \in {i \in 1..Len(t) : t[i] = HoldCall(type)} :
      /\ o < w /\ w < h /\ h < d
      /\ \A m \in CallsOf(t, "set_mode_input") : ~(o < m /\ m < d)

\* Work of dht_read on the handle that the claim keeps out of the critical
\* section.
HandleWork == {"stats", "decode", "checksum"}

\* C15: every poll of the pin made by a read, in the acknowledgment waits
\* and in the 80 capture waits, is made with interrupts disabled and the pin
\* an input with pull-up; interrupts are disabled only after the initiation
\* pulse was held for its duration; and no decoding, checksum test or
\* statistics update is made inside the critical section.  The collaborator
\* calls among the steps are the calls recorded in bus.
C15_PollsInsideCriticalSection ==
  last.op \in ReadOps
    => LET t == last.steps
           D == CallsOf(t, "ints_disable")
           E == CallsOf(t, "ints_enable")
           MI == CallsOf(t, "set_mode_input")
           MO == CallsOf(t, "set_mode_output")
           PU == CallsOf(t, "set_pull_up")
       IN /\ \A i \in CallsOf(t, "wait") :
               InCritical(D, E, i) /\ InputPullUp(MI, MO, PU, i)
          /\ \A d \in D : PulseHeldBefore(t, d, dht.type)
          /\ \A i \in 1..Len(t) :
               t[i].op \in HandleWork => ~InCritical(D, E, i)
          /\ bus = SelectSeq(t, LAMBDA c :
                                  c.op \notin HandleWork \cup {"flag", "memset"})

\* A read of a handle of the short-initiation variant polled the pin in both
\* acknowledgment waits and the 80 capture waits, decoded, tested the
\* checksum and updated the success statistics.
C15_Witness ==
  /\ last.op \in ReadOps /\ last.path = "ok" /\ dht.type = "ITEAD_SI7021"
  /\ Cardinality(CallsOf(last.steps, "wait")) = NumCycles + 2
  /\ Cardinality(CallsOf(last.steps, "stats")) = 5
  /\ CallsOf(last.steps, "decode") # {} /\ CallsOf(last.steps, "checksum") # {}

\* The steps of the claim up to the release of the line, for a handle on pin
\* of the type.
ClaimStart(pin, type) ==
  << Call("set_mode_input", pin, 0), Call("set_pull_up", pin, 0),
     Call("msleep", 10, 0),
     Call("set_mode_output", pin, 0), Call("write", pin, 0),
     IF type = "ITEAD_SI7021" THEN Call("usleep", 500, 0)
                              ELSE Call("msleep", 18, 0),
     Call("set_mode_input", pin, 0), Call("set_pull_up", pin, 0) >>

\* Wait for high, then wait for low, within 90 us each.
ClaimAck == << Call("wait", 1, 90), Call("wait", 0, 90) >>

\* 80 waits within 500 us each, for high and for low in turn.
ClaimCapture ==
  [s \in 1..80 |-> IF s % 2 = 1 THEN Call("wait", 1, 500)
                                ELSE Call("wait", 0, 500)]

\* The calls of a trace the claim lists: all but the interrupt masking and
\* the 40 us sleep of line 91.
ClaimSteps(trace) ==
  SelectSeq(trace, LAMBDA c : /\ c.op \notin {"ints_disable", "ints_enable"}
                              /\ c # Call("usleep", 40, 0))

\* The last call was a read operation that made a handshake.
FreshRead == last.op \in ReadOps /\ bus # << >>

\* C16 as stated: every fresh read makes all the steps of the claim, in the
\* order of the claim, the 80 capture waits included.
C16_EveryFreshReadCaptures ==
  FreshRead
    => ClaimSteps(bus) = ClaimStart(dht.pin, dht.type) \o ClaimAck \o ClaimCapture

\* C16, amended: every fresh read makes the steps of the claim in the order
\* of the claim up to the wait for high; it waits for low only if that wait
\* did not time out, and makes the 80 capture waits only if neither
\* acknowledgment wait returned 0, and then makes exactly those.
C16_StepsInOrderUntilAbort ==
  FreshRead
    => LET start == ClaimStart(dht.pin, dht.type) IN
       IF last.path = "ack_timeout" /\ last.acks[1] = 0
       THEN ClaimSteps(bus) = start \o << Call("wait", 1, 90) >>
       ELSE IF last.path = "ack_timeout"
       THEN last.acks[2] = 0 /\ ClaimSteps(bus) = start \o ClaimAck
       ELSE ClaimSteps(bus) = start \o ClaimAck \o ClaimCapture

\* A read of a handle of the short-initiation variant made the 80 capture
\* waits, one of which timed out.
C16_Witness ==
  /\ FreshRead /\ last.path = "slot_timeout"
  /\ dht.type = "ITEAD_SI7021"
  /\ Len(ClaimSteps(bus)) = 90

\* C17: whenever a handle exists and its last_result is true, its data
\* buffer satisfies data[4] = (data[0] + data[1] + data[2] + data[3]) mod 256;
\* and a step that changes the data buffer of the handle leaves last_result
\* true only if it is a fresh read whose checksum test passed.
C17_TrueFlagMeansValidData ==
  /\ []((created /\ dht.last_result)
          => dht.data[5]
               = (dht.data[1] + dht.data[2] + dht.data[3] + dht.data[4]) % 256)
  /\ [][(created /\ created' /\ dht'.data # dht.data /\ dht'.last_result)
          => (ReadStep /\ last'.path = "ok" /\ last'.ret)]_vars

\* The flag is true after a good fresh read that followed a failed fresh
\* read and a rate-limited call on the same handle.
C17_Witness ==
  /\ created /\ dht.last_result /\ dht.data = FrameDht11
  /\ cnt.N = 3 /\ cnt.M = 1 /\ cnt.S = 1
  /\ last.path = "ok"

\* C18: the first read call on a newly created handle makes a handshake and
\* does not increment the cache-hit counter, whatever the clock reads at the
\* call.
C18_FirstReadIsFresh ==
  [][(ReadStep /\ cnt.N = 0)
       => /\ bus' # << >>
          /\ last'.path # "cached"
          /\ dht'.stats.read_success_cached = dht.stats.read_success_cached]_vars

\* The dht_wait call whose return waiting.ret holds.
ReturnedWait == IF waiting.pc = "done" THEN waiting.k ELSE waiting.k - 1

\* C19: the critical section of a read ends whatever the pin reads at each
\* poll: a dht_wait makes at most usecs + 1 polls, a read makes at most 2
\* acknowledgment waits and 80 capture waits, every wait that is started
\* is followed by the end of the critical section, and interrupts, once
\* disabled, are enabled again.  A dht_wait returns what the closed form
\* dht_wait gives for the leading polls it saw differ.
C19_ReadTerminates ==
  /\ [](waiting.pc # "idle"
          => /\ waiting.polls <= WaitUsecs(waiting.k)
             /\ waiting.made <= WaitUsecs(ReturnedWait) + 1
             /\ waiting.k \in 1..(NumCycles + 2)
             /\ waiting.ret = dht_wait(waiting.lead, WaitUsecs(ReturnedWait)))
  /\ [](ints \in {0, 1})
  /\ [](waiting.pc = "poll" <=> ints = 1)
  /\ (waiting.pc = "poll") ~> (waiting.pc = "done")
  /\ (ints > 0) ~> (ints = 0)

\* The critical section ended after 82 waits, the last of which timed out
\* after 501 polls.
C19_Witness ==
  /\ waiting.pc = "done" /\ waiting.k = NumCycles + 2
  /\ waiting.made = SlotTimeoutUsecs + 1 /\ waiting.ret = 0
  /\ ints = 0

\* What the claim says of a dht_wait that returned ret after the pin
\* differed from the level at n leading polls: it returns the polls elapsed
\* when the pin first reads the level, and 0 only if the pin did not read
\* the level within usecs.
WaitAsClaimed(ret, n, usecs) ==
  /\ n <= usecs => ret = n
  /\ ret = 0 => n > usecs

\* C20: every dht_wait of a fresh read returns as the claim says, so that a
\* read left in the acknowledgment phase, or failed in decoding for a zero
\* slot, saw the pin miss the level for the whole timeout of that wait.
C20_ZeroReturnMeansTimeout ==
  FreshRead
    => /\ WaitAsClaimed(last.acks[1], last.seen.a1, AckTimeoutUsecs)
       /\ Len(last.acks) = 2
            => WaitAsClaimed(last.acks[2], last.seen.a2, AckTimeoutUsecs)
       /\ \A s \in 1..Len(last.cycles) :
            WaitAsClaimed(last.cycles[s], last.seen.polls[s], SlotTimeoutUsecs)
       /\ last.path = "ack_timeout"
            => \/ last.seen.a1 > AckTimeoutUsecs
               \/ last.seen.a2 > AckTimeoutUsecs
       /\ last.path = "slot_timeout"
            => last.seen.polls[last.zero + 1] > SlotTimeoutUsecs

====
